---- MODULE Spec2Model ----
(***************************************************************************)
(* rwsem-any.c: reader, writer and downgrader kernel threads hammering one *)
(* R/W semaphore, with the module's init function as the harness.          *)
(*                                                                         *)
(* Every atomic_t access, every semaphore call and every loop test of the  *)
(* source is one step; the label of a thread is the function and source    *)
(* line of the statement it executes next ("dr_86" = line 86, in dr()).    *)
(* The semaphore itself (down_read, up_read, down_write, up_write,         *)
(* downgrade_write) is not part of the source file: it is the RWLock of    *)
(* the specification, with `activity` as its occupancy and `wait_list` as  *)
(* its ordered waiters, every operation being atomic under the lock's own  *)
(* internal synchronisation.                                               *)
(***************************************************************************)
EXTENDS Integers, Sequences, FiniteSets

(* Bounds of the model. *)
MaxThreads == 3
MaxCycles == 3

(* rd_comp[20], wr_comp[20], dg_comp[20] and the spawn loop's limit. *)
NCOMP == 20

VARIABLES
    numrd, numwr, numdg,    \* module parameters
    budget,                 \* loop iterations that may begin in `elapse` seconds
    do_stuff,               \* the "keep running" flag
    readers, writers,       \* instrumentation counters
    reads_taken, writes_taken, downgrades_taken,
    activity,               \* rwsem_sem: 0 free, N > 0 readers, -1 writer
    wait_list,              \* rwsem_sem: queue of [task, flags]
    held,                   \* access each thread was granted by the semaphore
    pc,                     \* each thread's next statement
    comp,                   \* comp[kind][N]: completions signalled, not yet consumed
    timer,                  \* "idle", "pending", "fired", "deleted"
    mainpc, loop,           \* rwsem_init_module's position and loop variable
    failed,                 \* the "check ... failed" messages printed
    report,                 \* the results printed, <<>> before
    cycles,                 \* loop iterations begun, all threads together
    acquired,               \* history: acquisitions completed, per operation
    signalled               \* history: complete_and_exit calls, per thread

vars == <<numrd, numwr, numdg, budget, do_stuff, readers, writers, reads_taken,
          writes_taken, downgrades_taken, activity, wait_list, held, pc, comp,
          timer, mainpc, loop, failed, report, cycles, acquired, signalled>>

params == <<numrd, numwr, numdg, budget>>
counters == <<readers, writers, reads_taken, writes_taken, downgrades_taken>>
semvars == <<activity, wait_list, held>>

Kinds == {"rd", "wr", "dg"}
Slots == 0 .. MaxThreads

Num(k) == CASE k = "rd" -> numrd [] k = "wr" -> numwr [] k = "dg" -> numdg

(* The threads, numbered: the numrd readers (Read0, Read1, ...) first,     *)
(* then the numwr writers, then the numdg downgraders; Kind and Slot give  *)
(* the function a thread runs and its argument N.                          *)
Threads == 1 .. (MaxThreads + 1)

Kind(t) ==
    IF t <= numrd THEN "rd"
    ELSE IF t <= numrd + numwr THEN "wr"
    ELSE IF t <= numrd + numwr + numdg THEN "dg"
    ELSE "none"

Slot(t) ==
    IF t <= numrd THEN t - 1
    ELSE IF t <= numrd + numwr THEN t - 1 - numrd
    ELSE t - 1 - numrd - numwr

Spawned == {t \in Threads : Kind(t) # "none"}

(***************************************************************************)
(* The semaphore.                                                          *)
(***************************************************************************)
RECURSIVE LeadingReaders(_)
LeadingReaders(q) ==
    IF q = <<>> \/ Head(q).flags # "read" THEN 0
    ELSE 1 + LeadingReaders(Tail(q))

Tasks(q) == {q[i].task : i \in 1 .. Len(q)}

Queued(t) == t \in Tasks(wait_list)

(* Position of task t in queue q, 0 when it is not queued. *)
Position(q, t) ==
    IF \E i \in 1 .. Len(q) : q[i].task = t
    THEN CHOOSE i \in 1 .. Len(q) : q[i].task = t
    ELSE 0

(* The access held once the queue has gone from q to its suffix r: each    *)
(* waiter taken off the front holds what it asked for.                     *)
Granted(h, q, r) ==
    [t \in Threads |->
        IF Position(q, t) \in 1 .. (Len(q) - Len(r))
        THEN q[Position(q, t)].flags
        ELSE h[t]]

(* Wake the waiters next in turn: one writer if it is at the front and     *)
(* writers may be woken, otherwise the readers at the front of the queue.  *)
do_wake(act, q, wakewrite) ==
    IF q = <<>> THEN [activity |-> act, wait_list |-> q]
    ELSE IF Head(q).flags = "write"
    THEN IF wakewrite THEN [activity |-> -1, wait_list |-> Tail(q)]
         ELSE [activity |-> act, wait_list |-> q]
    ELSE [activity |-> act + LeadingReaders(q),
          wait_list |-> SubSeq(q, LeadingReaders(q) + 1, Len(q))]

(* acquire_read: granted at once when no writer holds and nobody waits,    *)
(* queued otherwise.                                                       *)
down_read_now == activity >= 0 /\ wait_list = <<>>

down_read(t) ==
    IF down_read_now
    THEN /\ activity' = activity + 1
         /\ held' = [held EXCEPT ![t] = "read"]
         /\ wait_list' = wait_list
    ELSE /\ wait_list' = Append(wait_list, [task |-> t, flags |-> "read"])
         /\ UNCHANGED <<activity, held>>

(* acquire_write: granted at once when the lock is free and nobody waits.  *)
down_write_now == activity = 0 /\ wait_list = <<>>

down_write(t) ==
    IF down_write_now
    THEN /\ activity' = -1
         /\ held' = [held EXCEPT ![t] = "write"]
         /\ wait_list' = wait_list
    ELSE /\ wait_list' = Append(wait_list, [task |-> t, flags |-> "write"])
         /\ UNCHANGED <<activity, held>>

(* release_read: the last reader out wakes the writer at the front.        *)
up_read(t) ==
    LET w == IF activity - 1 = 0
             THEN do_wake(0, wait_list, TRUE)
             ELSE [activity |-> activity - 1, wait_list |-> wait_list]
    IN /\ activity' = w.activity
       /\ wait_list' = w.wait_list
       /\ held' = Granted([held EXCEPT ![t] = "none"], wait_list, w.wait_list)

(* release_write: free, then wake whoever is next in turn.                 *)
up_write(t) ==
    LET w == do_wake(0, wait_list, TRUE)
    IN /\ activity' = w.activity
       /\ wait_list' = w.wait_list
       /\ held' = Granted([held EXCEPT ![t] = "none"], wait_list, w.wait_list)

(* downgrade_write: the writer becomes the one reader, and the readers at  *)
(* the front of the queue join it; a writer at the front stays queued.     *)
downgrade_write(t) ==
    LET w == do_wake(1, wait_list, FALSE)
    IN /\ activity' = w.activity
       /\ wait_list' = w.wait_list
       /\ held' = Granted([held EXCEPT ![t] = "read"], wait_list, w.wait_list)

(***************************************************************************)
(* The instrumented wrappers.                                              *)
(***************************************************************************)
Goto(t, l) == pc' = [pc EXCEPT ![t] = l]

(* CHECKA(var, val) in function fn: one atomic_read and a printk.          *)
CHECKA(name, var, val, fn) ==
    failed' = IF var # val THEN failed \cup {<<name, val, var, fn>>} ELSE failed

Count(op) == acquired' = [acquired EXCEPT ![op] = @ + 1]

(* What follows ur() and dw() in the calling thread. *)
AfterDw(t) == IF Kind(t) = "dg" THEN "dgw_117" ELSE "uw_109"

(* Mutant: down_read_trylock with its result ignored. *)
dr_down_read_trylock(t) ==
    /\ pc[t] = "dr_85"
    /\ IF down_read_now THEN down_read(t) ELSE UNCHANGED semvars
    /\ Goto(t, "dr_86")
    /\ Count("down_read")
    /\ UNCHANGED <<counters, failed>>

(* Mutant: line 85 returns without waiting for the grant. *)
dr_down_read_nowait(t) ==
    /\ pc[t] = "dr_85"
    /\ down_read(t)
    /\ Goto(t, "dr_86")
    /\ Count("down_read")
    /\ UNCHANGED <<counters, failed>>

(* Mutant: line 85 takes the semaphore for writing. *)
dr_down_write(t) ==
    \/ /\ pc[t] = "dr_85"
       /\ down_write(t)
       /\ IF down_write_now THEN Goto(t, "dr_86") /\ Count("down_read")
          ELSE Goto(t, "dr_85_sleep") /\ UNCHANGED acquired
       /\ UNCHANGED <<counters, failed>>
    \/ /\ pc[t] = "dr_85_sleep"
       /\ ~Queued(t)
       /\ Goto(t, "dr_86")
       /\ Count("down_read")
       /\ UNCHANGED <<counters, semvars, failed>>

(* down_read(&rwsem_sem), line 85: returns at once or after sleeping on the *)
(* wait list until a releasing thread has granted the request.             *)
dr_down_read(t) ==
    \/ /\ pc[t] = "dr_85"
       /\ down_read(t)
       /\ IF down_read_now THEN Goto(t, "dr_86") /\ Count("down_read")
          ELSE Goto(t, "dr_85_sleep") /\ UNCHANGED acquired
       /\ UNCHANGED <<counters, failed>>
    \/ /\ pc[t] = "dr_85_sleep"
       /\ ~Queued(t)
       /\ Goto(t, "dr_86")
       /\ Count("down_read")
       /\ UNCHANGED <<counters, semvars, failed>>

(* Mutant: line 87 increments readers a second time, not reads_taken. *)
dr_account_typo(t) ==
    \/ /\ pc[t] \in {"dr_86", "dr_87"}
       /\ readers' = readers + 1
       /\ Goto(t, IF pc[t] = "dr_86" THEN "dr_87" ELSE "dr_88")
       /\ UNCHANGED <<writers, reads_taken, writes_taken, downgrades_taken,
                      semvars, failed, acquired>>
    \/ /\ pc[t] = "dr_88"
       /\ CHECKA("writers", writers, 0, "dr")
       /\ Goto(t, "ur_93")
       /\ UNCHANGED <<counters, semvars, acquired>>

(* atomic_inc(&readers); atomic_inc(&reads_taken); CHECKA(writers, 0). *)
dr_account(t) ==
    \/ /\ pc[t] = "dr_86"
       /\ readers' = readers + 1
       /\ Goto(t, "dr_87")
       /\ UNCHANGED <<writers, reads_taken, writes_taken, downgrades_taken,
                      semvars, failed, acquired>>
    \/ /\ pc[t] = "dr_87"
       /\ reads_taken' = reads_taken + 1
       /\ Goto(t, "dr_88")
       /\ UNCHANGED <<readers, writers, writes_taken, downgrades_taken,
                      semvars, failed, acquired>>
    \/ /\ pc[t] = "dr_88"
       /\ CHECKA("writers", writers, 0, "dr")
       /\ Goto(t, "ur_93")
       /\ UNCHANGED <<counters, semvars, acquired>>

dr(t) == dr_down_read(t) \/ dr_account(t)

(* CHECKA(writers, 0); atomic_dec(&readers). *)
ur_account(t) ==
    \/ /\ pc[t] = "ur_93"
       /\ CHECKA("writers", writers, 0, "ur")
       /\ Goto(t, "ur_94")
       /\ UNCHANGED <<counters, semvars, acquired>>
    \/ /\ pc[t] = "ur_94"
       /\ readers' = readers - 1
       /\ Goto(t, "ur_95")
       /\ UNCHANGED <<writers, reads_taken, writes_taken, downgrades_taken,
                      semvars, failed, acquired>>

(* Mutant: the release waits until nobody is queued. *)
ur_up_read_blocking(t) ==
    /\ pc[t] = "ur_95"
    /\ wait_list = <<>>
    /\ up_read(t)
    /\ Goto(t, "sched")
    /\ UNCHANGED <<counters, failed, acquired>>

(* Mutant: downgrade_write called where up_read is meant. *)
ur_downgrade_write(t) ==
    /\ pc[t] = "ur_95"
    /\ downgrade_write(t)
    /\ Goto(t, "sched")
    /\ UNCHANGED <<counters, failed, acquired>>

(* Mutant: ur() returns without calling up_read. *)
ur_no_up_read(t) ==
    /\ pc[t] = "ur_95"
    /\ Goto(t, "sched")
    /\ UNCHANGED <<counters, semvars, failed, acquired>>

(* Mutant: the read side released with up_write. *)
ur_up_write(t) ==
    /\ pc[t] = "ur_95"
    /\ up_write(t)
    /\ Goto(t, "sched")
    /\ UNCHANGED <<counters, failed, acquired>>

(* up_read(&rwsem_sem), line 95. *)
ur_up_read(t) ==
    /\ pc[t] = "ur_95"
    /\ up_read(t)
    /\ Goto(t, "sched")
    /\ UNCHANGED <<counters, failed, acquired>>

(* Mutant: up_read before atomic_dec(&readers). *)
ur_late_dec(t) ==
    \/ /\ pc[t] = "ur_93"
       /\ CHECKA("writers", writers, 0, "ur")
       /\ Goto(t, "ur_94")
       /\ UNCHANGED <<counters, semvars, acquired>>
    \/ /\ pc[t] = "ur_94"
       /\ up_read(t)
       /\ Goto(t, "ur_95")
       /\ UNCHANGED <<counters, failed, acquired>>
    \/ /\ pc[t] = "ur_95"
       /\ readers' = readers - 1
       /\ Goto(t, "sched")
       /\ UNCHANGED <<writers, reads_taken, writes_taken, downgrades_taken,
                      semvars, failed, acquired>>

ur(t) == ur_account(t) \/ ur_up_read(t)

(* Mutant: down_write_trylock with its result ignored. *)
dw_down_write_trylock(t) ==
    /\ pc[t] = "dw_100"
    /\ IF down_write_now THEN down_write(t) ELSE UNCHANGED semvars
    /\ Goto(t, "dw_101")
    /\ Count("down_write")
    /\ UNCHANGED <<counters, failed>>

(* down_write(&rwsem_sem), line 100. *)
dw_down_write(t) ==
    \/ /\ pc[t] = "dw_100"
       /\ down_write(t)
       /\ IF down_write_now THEN Goto(t, "dw_101") /\ Count("down_write")
          ELSE Goto(t, "dw_100_sleep") /\ UNCHANGED acquired
       /\ UNCHANGED <<counters, failed>>
    \/ /\ pc[t] = "dw_100_sleep"
       /\ ~Queued(t)
       /\ Goto(t, "dw_101")
       /\ Count("down_write")
       /\ UNCHANGED <<counters, semvars, failed>>

(* Mutant: line 102 counts the acquisitions of writer threads only. *)
dw_account_writers_only(t) ==
    \/ /\ pc[t] = "dw_101"
       /\ writers' = writers + 1
       /\ Goto(t, "dw_102")
       /\ UNCHANGED <<readers, reads_taken, writes_taken, downgrades_taken,
                      semvars, failed, acquired>>
    \/ /\ pc[t] = "dw_102"
       /\ writes_taken' = IF Kind(t) = "wr" THEN writes_taken + 1
                          ELSE writes_taken
       /\ Goto(t, "dw_103")
       /\ UNCHANGED <<readers, writers, reads_taken, downgrades_taken,
                      semvars, failed, acquired>>
    \/ /\ pc[t] = "dw_103"
       /\ CHECKA("writers", writers, 1, "dw")
       /\ Goto(t, "dw_104")
       /\ UNCHANGED <<counters, semvars, acquired>>
    \/ /\ pc[t] = "dw_104"
       /\ CHECKA("readers", readers, 0, "dw")
       /\ Goto(t, AfterDw(t))
       /\ UNCHANGED <<counters, semvars, acquired>>

(* atomic_inc(&writers); atomic_inc(&writes_taken); the two CHECKA. *)
dw_account(t) ==
    \/ /\ pc[t] = "dw_101"
       /\ writers' = writers + 1
       /\ Goto(t, "dw_102")
       /\ UNCHANGED <<readers, reads_taken, writes_taken, downgrades_taken,
                      semvars, failed, acquired>>
    \/ /\ pc[t] = "dw_102"
       /\ writes_taken' = writes_taken + 1
       /\ Goto(t, "dw_103")
       /\ UNCHANGED <<readers, writers, reads_taken, downgrades_taken,
                      semvars, failed, acquired>>
    \/ /\ pc[t] = "dw_103"
       /\ CHECKA("writers", writers, 1, "dw")
       /\ Goto(t, "dw_104")
       /\ UNCHANGED <<counters, semvars, acquired>>
    \/ /\ pc[t] = "dw_104"
       /\ CHECKA("readers", readers, 0, "dw")
       /\ Goto(t, AfterDw(t))
       /\ UNCHANGED <<counters, semvars, acquired>>

dw(t) == dw_down_write(t) \/ dw_account(t)

(* The two CHECKA; atomic_dec(&writers). *)
uw_account(t) ==
    \/ /\ pc[t] = "uw_109"
       /\ CHECKA("writers", writers, 1, "uw")
       /\ Goto(t, "uw_110")
       /\ UNCHANGED <<counters, semvars, acquired>>
    \/ /\ pc[t] = "uw_110"
       /\ CHECKA("readers", readers, 0, "uw")
       /\ Goto(t, "uw_111")
       /\ UNCHANGED <<counters, semvars, acquired>>
    \/ /\ pc[t] = "uw_111"
       /\ writers' = writers - 1
       /\ Goto(t, "uw_112")
       /\ UNCHANGED <<readers, reads_taken, writes_taken, downgrades_taken,
                      semvars, failed, acquired>>

(* Mutant: up_read called where up_write is meant. *)
uw_up_read(t) ==
    /\ pc[t] = "uw_112"
    /\ up_read(t)
    /\ Goto(t, "sched")
    /\ Count("up_write")
    /\ UNCHANGED <<counters, failed>>

(* up_write(&rwsem_sem), line 112. *)
uw_up_write(t) ==
    /\ pc[t] = "uw_112"
    /\ up_write(t)
    /\ Goto(t, "sched")
    /\ Count("up_write")
    /\ UNCHANGED <<counters, failed>>

uw(t) == uw_account(t) \/ uw_up_write(t)

(* Mutant: the write side released with up_write instead of downgraded. *)
dgw_up_write(t) ==
    /\ pc[t] = "dgw_121"
    /\ up_write(t)
    /\ Goto(t, "dgw_122")
    /\ Count("downgrade_write")
    /\ UNCHANGED <<counters, failed>>

(* downgrade_write(&rwsem_sem), line 121. *)
dgw_downgrade_write(t) ==
    /\ pc[t] = "dgw_121"
    /\ downgrade_write(t)
    /\ Goto(t, "dgw_122")
    /\ Count("downgrade_write")
    /\ UNCHANGED <<counters, failed>>

(* Mutant: lines 119 and 120 in the other order. *)
dgw_inc_first(t) ==
    \/ /\ pc[t] = "dgw_117"
       /\ CHECKA("writers", writers, 1, "dgw")
       /\ Goto(t, "dgw_118")
       /\ UNCHANGED <<counters, semvars, acquired>>
    \/ /\ pc[t] = "dgw_118"
       /\ CHECKA("readers", readers, 0, "dgw")
       /\ Goto(t, "dgw_119")
       /\ UNCHANGED <<counters, semvars, acquired>>
    \/ /\ pc[t] = "dgw_119"
       /\ readers' = readers + 1
       /\ Goto(t, "dgw_120")
       /\ UNCHANGED <<writers, reads_taken, writes_taken, downgrades_taken,
                      semvars, failed, acquired>>
    \/ /\ pc[t] = "dgw_120"
       /\ writers' = writers - 1
       /\ Goto(t, "dgw_121")
       /\ UNCHANGED <<readers, reads_taken, writes_taken, downgrades_taken,
                      semvars, failed, acquired>>
    \/ dgw_downgrade_write(t)
    \/ /\ pc[t] = "dgw_122"
       /\ downgrades_taken' = downgrades_taken + 1
       /\ Goto(t, "ur_93")
       /\ UNCHANGED <<readers, writers, reads_taken, writes_taken,
                      semvars, failed, acquired>>

(* dgw(): the two CHECKA, atomic_dec(&writers), atomic_inc(&readers),      *)
(* downgrade_write, atomic_inc(&downgrades_taken); lines 117 to 122.       *)
dgw(t) ==
    \/ /\ pc[t] = "dgw_117"
       /\ CHECKA("writers", writers, 1, "dgw")
       /\ Goto(t, "dgw_118")
       /\ UNCHANGED <<counters, semvars, acquired>>
    \/ /\ pc[t] = "dgw_118"
       /\ CHECKA("readers", readers, 0, "dgw")
       /\ Goto(t, "dgw_119")
       /\ UNCHANGED <<counters, semvars, acquired>>
    \/ /\ pc[t] = "dgw_119"
       /\ writers' = writers - 1
       /\ Goto(t, "dgw_120")
       /\ UNCHANGED <<readers, reads_taken, writes_taken, downgrades_taken,
                      semvars, failed, acquired>>
    \/ /\ pc[t] = "dgw_120"
       /\ readers' = readers + 1
       /\ Goto(t, "dgw_121")
       /\ UNCHANGED <<writers, reads_taken, writes_taken, downgrades_taken,
                      semvars, failed, acquired>>
    \/ dgw_downgrade_write(t)
    \/ /\ pc[t] = "dgw_122"
       /\ downgrades_taken' = downgrades_taken + 1
       /\ Goto(t, "ur_93")
       /\ UNCHANGED <<readers, writers, reads_taken, writes_taken,
                      semvars, failed, acquired>>

(* sched(): schedule() when do_sched is set; a yield changes no state.     *)
sched(t) ==
    /\ pc[t] = "sched"
    /\ Goto(t, "while")
    /\ UNCHANGED <<counters, semvars, failed, acquired>>

(***************************************************************************)
(* The threads.                                                            *)
(***************************************************************************)
(* while (atomic_read(&do_stuff)): into the body at `first`, or out.       *)
while(t, first) ==
    /\ pc[t] = "while"
    /\ IF do_stuff # 0
       THEN /\ cycles < budget
            /\ cycles' = cycles + 1
            /\ Goto(t, first)
       ELSE /\ Goto(t, "done")
            /\ UNCHANGED cycles
    /\ UNCHANGED <<counters, semvars, failed, acquired, comp, signalled>>

(* Mutant: every thread completes slot 0 of its kind. *)
complete_and_exit_slot0(t) ==
    /\ pc[t] = "done"
    /\ comp' = [comp EXCEPT ![Kind(t)][0] = @ + 1]
    /\ signalled' = [signalled EXCEPT ![t] = @ + 1]
    /\ Goto(t, "exited")
    /\ UNCHANGED <<counters, semvars, failed, acquired, cycles>>

(* printk("%s: done\n"); complete_and_exit(&xx_comp[N], 0). *)
complete_and_exit(t) ==
    /\ pc[t] = "done"
    /\ comp' = [comp EXCEPT ![Kind(t)][Slot(t)] = @ + 1]
    /\ signalled' = [signalled EXCEPT ![t] = @ + 1]
    /\ Goto(t, "exited")
    /\ UNCHANGED <<counters, semvars, failed, acquired, cycles>>

Body(t) == UNCHANGED <<cycles, comp, signalled>>

(* Mutant: the reader tests the flag again between dr() and ur() and      *)
(* breaks out of the loop.                                                 *)
reader_early_exit(t) ==
    /\ Kind(t) = "rd"
    /\ \/ while(t, "dr_85")
       \/ dr(t) /\ Body(t)
       \/ ur(t) /\ Body(t)
       \/ /\ pc[t] = "ur_93"
          /\ do_stuff = 0
          /\ Goto(t, "done")
          /\ UNCHANGED <<counters, semvars, failed, acquired>>
          /\ Body(t)
       \/ sched(t) /\ Body(t)
       \/ complete_and_exit(t)
    /\ UNCHANGED <<params, do_stuff, timer, mainpc, loop, report>>

reader(t) ==
    /\ Kind(t) = "rd"
    /\ \/ while(t, "dr_85")
       \/ dr(t) /\ Body(t)
       \/ ur(t) /\ Body(t)
       \/ sched(t) /\ Body(t)
       \/ complete_and_exit(t)
    /\ UNCHANGED <<params, do_stuff, timer, mainpc, loop, report>>

writer(t) ==
    /\ Kind(t) = "wr"
    /\ \/ while(t, "dw_100")
       \/ dw(t) /\ Body(t)
       \/ uw(t) /\ Body(t)
       \/ sched(t) /\ Body(t)
       \/ complete_and_exit(t)
    /\ UNCHANGED <<params, do_stuff, timer, mainpc, loop, report>>

downgrader(t) ==
    /\ Kind(t) = "dg"
    /\ \/ while(t, "dw_100")
       \/ dw(t) /\ Body(t)
       \/ dgw(t) /\ Body(t)
       \/ ur(t) /\ Body(t)
       \/ sched(t) /\ Body(t)
       \/ complete_and_exit(t)
    /\ UNCHANGED <<params, do_stuff, timer, mainpc, loop, report>>

(***************************************************************************)
(* The timer and the harness.                                              *)
(***************************************************************************)
(* Mutant: the timer function decrements the flag. *)
stop_test_dec ==
    /\ timer = "pending"
    /\ timer' = "fired"
    /\ do_stuff' = do_stuff - 1
    /\ UNCHANGED <<params, counters, semvars, pc, comp, mainpc, loop, failed,
                   report, cycles, acquired, signalled>>

(* stop_test(): atomic_set(&do_stuff, 0), run when the timer expires. *)
stop_test ==
    /\ timer = "pending"
    /\ timer' = "fired"
    /\ do_stuff' = 0
    /\ UNCHANGED <<params, counters, semvars, pc, comp, mainpc, loop, failed,
                   report, cycles, acquired, signalled>>

(* init_rwsem(&rwsem_sem); atomic_set(&do_stuff, 1). *)
init_start ==
    /\ mainpc = "start"
    /\ activity' = 0
    /\ wait_list' = <<>>
    /\ do_stuff' = 1
    /\ loop' = 0
    /\ mainpc' = "spawn"
    /\ UNCHANGED <<params, counters, held, pc, comp, timer, failed, report,
                   cycles, acquired, signalled>>

(* One iteration of the spawning loop: init_completion and kernel_thread   *)
(* for each kind with loop < num; the iterations left once nothing more is *)
(* to be spawned change no state and are taken together.                   *)
init_spawn ==
    /\ mainpc = "spawn"
    /\ loop < NCOMP
    /\ comp' = [k \in Kinds |->
                  [i \in Slots |-> IF i = loop /\ loop < Num(k) THEN 0
                                   ELSE comp[k][i]]]
    /\ pc' = [t \in Threads |->
                  IF t \in Spawned /\ Slot(t) = loop THEN "while"
                  ELSE pc[t]]
    /\ loop' = IF \E k \in Kinds : loop + 1 < Num(k) THEN loop + 1 ELSE NCOMP
    /\ UNCHANGED <<params, do_stuff, counters, semvars, timer, mainpc, failed,
                   report, cycles, acquired, signalled>>

(* init_timer; add_timer. *)
init_add_timer ==
    /\ mainpc = "spawn"
    /\ loop >= NCOMP
    /\ timer' = "pending"
    /\ mainpc' = "wait_rd"
    /\ loop' = 0
    /\ UNCHANGED <<params, do_stuff, counters, semvars, pc, comp, failed,
                   report, cycles, acquired, signalled>>

(* Mutant: the join loop does not wait for the completion. *)
init_wait_nowait(k, here, next) ==
    /\ mainpc = here
    /\ IF loop < Num(k)
       THEN /\ loop' = loop + 1
            /\ mainpc' = mainpc
       ELSE /\ loop' = 0
            /\ mainpc' = next
    /\ UNCHANGED <<params, do_stuff, counters, semvars, pc, comp, timer,
                   failed, report, cycles, acquired, signalled>>

(* for (loop = 0; loop < num; loop++) wait_for_completion(&xx_comp[loop]). *)
init_wait(k, here, next) ==
    /\ mainpc = here
    /\ IF loop < Num(k)
       THEN /\ comp[k][loop] > 0
            /\ comp' = [comp EXCEPT ![k][loop] = @ - 1]
            /\ loop' = loop + 1
            /\ mainpc' = mainpc
       ELSE /\ loop' = 0
            /\ mainpc' = next
            /\ comp' = comp
    /\ UNCHANGED <<params, do_stuff, counters, semvars, pc, timer, failed,
                   report, cycles, acquired, signalled>>

(* atomic_set(&do_stuff, 0). *)
init_clear ==
    /\ mainpc = "clear"
    /\ do_stuff' = 0
    /\ mainpc' = "del_timer"
    /\ UNCHANGED <<params, counters, semvars, pc, comp, timer, loop, failed,
                   report, cycles, acquired, signalled>>

(* del_timer(&timer). *)
init_del_timer ==
    /\ mainpc = "del_timer"
    /\ timer' = IF timer = "pending" THEN "deleted" ELSE timer
    /\ mainpc' = "print"
    /\ UNCHANGED <<params, do_stuff, counters, semvars, pc, comp, loop, failed,
                   report, cycles, acquired, signalled>>

(* The four printk of the results. *)
init_print ==
    /\ mainpc = "print"
    /\ report' = [counter |-> activity, reads |-> reads_taken,
                  writes |-> writes_taken, downgrades |-> downgrades_taken]
    /\ mainpc' = "return"
    /\ UNCHANGED <<params, do_stuff, counters, semvars, pc, comp, timer, loop,
                   failed, cycles, acquired, signalled>>

rwsem_init_module ==
    \/ init_start
    \/ init_spawn
    \/ init_add_timer
    \/ init_wait("rd", "wait_rd", "wait_wr")
    \/ init_wait("wr", "wait_wr", "wait_dg")
    \/ init_wait("dg", "wait_dg", "clear")
    \/ init_clear
    \/ init_del_timer
    \/ init_print

(***************************************************************************)
(* The specifications.                                                     *)
(***************************************************************************)
(* The module as loaded: the static initialisers. *)
Loaded ==
    /\ do_stuff = 0
    /\ readers = 0
    /\ writers = 0
    /\ reads_taken = 0
    /\ writes_taken = 0
    /\ downgrades_taken = 0
    /\ activity = 0
    /\ wait_list = <<>>
    /\ held = [t \in Threads |-> "none"]
    /\ pc = [t \in Threads |-> "unborn"]
    /\ comp = [k \in Kinds |-> [i \in Slots |-> 0]]
    /\ timer = "idle"
    /\ mainpc = "start"
    /\ loop = 0
    /\ failed = {}
    /\ report = <<>>
    /\ cycles = 0
    /\ acquired = [op \in {"down_read", "down_write", "downgrade_write",
                            "up_write"} |-> 0]
    /\ signalled = [t \in Threads |-> 0]

(* Up to MaxThreads threads in any mix, MaxCycles loop iterations. *)
Init ==
    /\ numrd \in 0 .. MaxThreads
    /\ numwr \in 0 .. MaxThreads
    /\ numdg \in 0 .. MaxThreads
    /\ numrd + numwr + numdg <= MaxThreads
    /\ budget = MaxCycles
    /\ Loaded

(* One thread and one loop iteration more: the runs with a holder and      *)
(* three queued requests.                                                  *)
DeepInit ==
    /\ numrd \in 0 .. (MaxThreads + 1)
    /\ numwr \in 0 .. (MaxThreads + 1)
    /\ numdg \in 0 .. (MaxThreads + 1)
    /\ numrd + numwr + numdg = MaxThreads + 1
    /\ budget = MaxCycles + 1
    /\ Loaded

Step(t) == reader(t) \/ writer(t) \/ downgrader(t)

Next ==
    \/ \E t \in Threads : Step(t)
    \/ stop_test
    \/ rwsem_init_module

Spec == Init /\ [][Next]_vars

DeepSpec == DeepInit /\ [][Next]_vars

(* Every thread that can run is eventually run, a pending timer eventually *)
(* expires, and the init function goes on whenever it is not waiting.      *)
Fairness ==
    /\ \A t \in Threads : WF_vars(Step(t))
    /\ WF_vars(stop_test)
    /\ WF_vars(rwsem_init_module)

FairSpec == Spec /\ Fairness

(***************************************************************************)
(* Properties.                                                             *)
(***************************************************************************)
(* Where a thread is between the return of its acquisition and its release *)
(* (a downgrader is in the write section up to downgrade_write, in the     *)
(* read section after it).                                                 *)
ReadSection == {"dr_86", "dr_87", "dr_88", "ur_93", "ur_94", "ur_95", "dgw_122"}

WriteSection ==
    {"dw_101", "dw_102", "dw_103", "dw_104", "uw_109", "uw_110", "uw_111",
     "uw_112", "dgw_117", "dgw_118", "dgw_119", "dgw_120", "dgw_121"}

(* A sleeping thread whose request was taken off the queue holds already.  *)
HoldsRead(t) ==
    pc[t] \in ReadSection \/ (pc[t] = "dr_85_sleep" /\ ~Queued(t))

HoldsWrite(t) ==
    pc[t] \in WriteSection \/ (pc[t] = "dw_100_sleep" /\ ~Queued(t))

ReadHolders == {t \in Threads : HoldsRead(t)}
WriteHolders == {t \in Threads : HoldsWrite(t)}

WaitingIn(q, t, flags) ==
    \E i \in 1 .. Len(q) : q[i].task = t /\ q[i].flags = flags

IsWaiting(t, flags) == WaitingIn(wait_list, t, flags)

Asleep(t) == pc[t] \in {"dr_85_sleep", "dw_100_sleep"}

(* C1: mutual exclusion. At most one thread holds write access, and while  *)
(* any thread holds read access (from acquire_read or from                 *)
(* downgrade_write) no thread holds write access.                          *)
C1_MutualExclusion ==
    /\ Cardinality(WriteHolders) <= 1
    /\ ReadHolders # {} => WriteHolders = {}

(* A downgraded thread and a reader hold together while a writer waits.    *)
C1_Witness ==
    \E d, r, w \in Threads :
        /\ Kind(d) = "dg" /\ pc[d] \in ReadSection
        /\ Kind(r) = "rd" /\ pc[r] \in ReadSection
        /\ IsWaiting(w, "write")

(* C2: downgrade atomicity. From the return of a downgrader's acquire_write *)
(* to its release_read the lock is never free and no other thread holds or *)
(* completes a write acquisition; downgrade_write itself takes the lock    *)
(* from writer-held straight to reader-held with the caller as a reader.   *)
DowngraderSection == WriteSection \cup {"dgw_122", "ur_93", "ur_94", "ur_95"}

InDowngrade(t) == Kind(t) = "dg" /\ pc[t] \in DowngraderSection

C2_NoFreeWindow ==
    \A t \in Threads :
        InDowngrade(t) =>
            /\ activity # 0
            /\ \A u \in Threads \ {t} : ~HoldsWrite(u)

C2_Step ==
    \A t \in Threads :
        /\ (pc[t] = "dgw_121" /\ pc'[t] # "dgw_121") =>
               /\ activity = -1 /\ held[t] = "write"
               /\ activity' >= 1 /\ held'[t] = "read"
               /\ pc'[t] \in ReadSection
        /\ InDowngrade(t) =>
               acquired'["down_write"] = acquired["down_write"]

C2_DowngradeAtomic == []C2_NoFreeWindow /\ [][C2_Step]_vars

(* A downgrader has downgraded while a probing writer waits. *)
C2_Witness ==
    \E d, w \in Threads :
        /\ pc[d] = "dgw_122" /\ held[d] = "read" /\ activity >= 1
        /\ IsWaiting(w, "write")

(* C3: while a thread holds read access, however obtained, occupancy >= 1  *)
(* and no write acquisition is granted or completed; so after a downgrade  *)
(* no writer acquires until the downgraded thread and the readers admitted *)
(* with it have all released.                                              *)
C3_Occupancy == \A t \in Threads : HoldsRead(t) => activity >= 1

C3_Step ==
    (\E t \in Threads : HoldsRead(t) /\ HoldsRead(t)') =>
        /\ \A u \in Threads : held'[u] = "write" => held[u] = "write"
        /\ acquired'["down_write"] = acquired["down_write"]

C3_ReadersKeepWritersOut == []C3_Occupancy /\ [][C3_Step]_vars

(* Two readers hold, one of them through downgrade_write, and a writer     *)
(* that asked meanwhile is kept waiting.                                   *)
C3_Witness ==
    \E d, r, w \in Threads :
        /\ Kind(d) = "dg" /\ pc[d] = "ur_95"
        /\ r # d /\ pc[r] = "ur_95"
        /\ activity = 2
        /\ IsWaiting(w, "write")

(* C6: no CHECKA of dr, ur, dw, uw or dgw ever fails, whatever the         *)
(* interleaving: no check-failed message is printed.                       *)
C6_NoCheckFails == failed = {}

(* Each of the five functions has evaluated its checks. *)
C6_Witness ==
    /\ reads_taken >= 1
    /\ downgrades_taken >= 1
    /\ \E t \in Threads : Kind(t) = "wr" /\ pc[t] = "sched"
    /\ \E t \in Threads : Kind(t) = "rd" /\ pc[t] = "ur_94"

(* C8: the results are printed only once every spawned thread has          *)
(* signalled completion, and the occupancy printed is 0.                   *)
C8_ReportWhenIdle ==
    report # <<>> =>
        /\ \A t \in Spawned : pc[t] = "exited" /\ signalled[t] = 1
        /\ \A k \in Kinds : \A i \in Slots : comp[k][i] = 0
        /\ report.counter = 0
        /\ activity = 0 /\ wait_list = <<>>

(* A run with all three kinds of thread, stopped after some cycles. *)
C8_Witness ==
    /\ report # <<>>
    /\ numrd >= 1 /\ numwr >= 1 /\ numdg >= 1
    /\ report.reads >= 1 /\ report.writes >= 2 /\ report.downgrades >= 1

(* C9: a thread leaves its loop only from the loop test, holding nothing   *)
(* and waiting for nothing; a thread that has left or signalled completion *)
(* holds no access and is not queued.                                      *)
Leaving(t) == pc[t] \in {"done", "exited"}

C9_Idle(t) == held[t] = "none" /\ ~Queued(t) /\ ~HoldsRead(t) /\ ~HoldsWrite(t)

C9_LeftIdle == \A t \in Threads : Leaving(t) => C9_Idle(t)

C9_Step ==
    \A t \in Threads :
        (pc'[t] = "done" /\ pc[t] # "done") => pc[t] = "while" /\ C9_Idle(t)

C9_FlagBetweenCycles == []C9_LeftIdle /\ [][C9_Step]_vars

(* The timer has fired and a thread has left and signalled, while another *)
(* is still asleep inside an acquisition and may not leave from there.     *)
C9_Witness ==
    \E t \in Threads :
        /\ pc[t] = "exited"
        /\ timer = "fired"
        /\ cycles = MaxCycles
        /\ \E u \in Threads : pc[u] \in {"dr_85_sleep", "dw_100_sleep"}

(* C10: counter conservation. When the run is complete each of reads_taken, *)
(* writes_taken and downgrades_taken equals the number of completed        *)
(* acquisitions of its kind, and is the number printed; no step decreases  *)
(* any of the three.                                                       *)
C10_Final ==
    mainpc = "return" =>
        /\ reads_taken = acquired["down_read"]
        /\ writes_taken = acquired["down_write"]
        /\ downgrades_taken = acquired["downgrade_write"]
        /\ report.reads = reads_taken
        /\ report.writes = writes_taken
        /\ report.downgrades = downgrades_taken

C10_Step ==
    /\ reads_taken' >= reads_taken
    /\ writes_taken' >= writes_taken
    /\ downgrades_taken' >= downgrades_taken

C10_CounterConservation == []C10_Final /\ [][C10_Step]_vars

C10_Witness ==
    /\ mainpc = "return"
    /\ reads_taken >= 1 /\ writes_taken >= 2 /\ downgrades_taken >= 1

(* C4: no lost wakeups. Under fair scheduling a thread asleep in           *)
(* acquire_read or acquire_write eventually returns from it.               *)
C4_NoLostWakeup == \A t \in Threads : Asleep(t) ~> ~Asleep(t)

(* A reader and a writer are asleep, queued behind each other. *)
C4_Witness ==
    \E r, w \in Threads :
        /\ pc[r] = "dr_85_sleep" /\ IsWaiting(r, "read")
        /\ pc[w] = "dw_100_sleep" /\ IsWaiting(w, "write")

(* C5: no writer starvation. While a writer is queued, a reader that calls *)
(* acquire_read, or that is queued behind the writer, is not granted read  *)
(* access: the call queues it behind the writer; and the queued writer     *)
(* eventually holds the lock.                                              *)
Behind(q, r, w) ==
    /\ WaitingIn(q, w, "write")
    /\ WaitingIn(q, r, "read")
    /\ Position(q, r) > Position(q, w)

C5_Step ==
    \A w, r \in Threads :
        (/\ IsWaiting(w, "write")
         /\ pc[r] = "dr_85" \/ Behind(wait_list, r, w)) =>
            /\ ~HoldsRead(r)'
            /\ held'[r] # "read"
            /\ pc'[r] # pc[r] => Behind(wait_list', r, w)

Joined == mainpc \in {"clear", "del_timer", "print", "return"}

ReleaseCall(t) == pc[t] \in {"ur_95", "uw_112", "dgw_121"}

C11_CanRelease ==
    \A t \in Threads :
        /\ pc[t] = "ur_95" => held[t] = "read" /\ ENABLED Step(t)
        /\ pc[t] = "uw_112" => held[t] = "write" /\ ENABLED Step(t)
        /\ pc[t] = "dgw_121" => held[t] = "write" /\ ENABLED Step(t)

C11_Step ==
    \A t \in Threads :
        (ReleaseCall(t) /\ pc'[t] # pc[t]) =>
            /\ pc'[t] \in {"sched", "dgw_122"}
            /\ ~Queued(t)'
            /\ \A u \in Threads \ {t} : pc'[u] = pc[u]

NewlyGranted(flags) ==
    {u \in Threads : held'[u] = flags /\ held[u] # flags}

C12_Step ==
    \A t \in Threads :
        (/\ pc[t] = "ur_95" /\ pc'[t] # "ur_95"
         /\ activity = 1
         /\ \E w \in Threads : IsWaiting(w, "write")) =>
            /\ Cardinality(NewlyGranted("write")) = 1
            /\ \A w \in NewlyGranted("write") :
                   IsWaiting(w, "write") /\ ~Queued(w)' /\ HoldsWrite(w)'
            /\ NewlyGranted("read") = {}
            /\ activity' = -1
            /\ Len(wait_list') = Len(wait_list) - 1

C12_LastReaderWakesOneWriter == [][C12_Step]_vars

(* The last reader is about to release with a writer and a later reader    *)
(* both queued.                                                            *)
C12_Witness ==
    \E t, w, r \in Threads :
        /\ pc[t] = "ur_95" /\ activity = 1
        /\ IsWaiting(w, "write")
        /\ IsWaiting(r, "read")

(* C13: release_write wakes the waiters next in turn. With an empty queue  *)
(* it leaves the lock free. Otherwise it wakes either exactly one writer   *)
(* (the request at the front) or readers, never both; the readers woken    *)
(* are those queued ahead of the first queued writer, which are all the    *)
(* queued readers only when no writer is queued between them.              *)
QueuedReaders(q) == {q[i].task : i \in {j \in 1 .. Len(q) : q[j].flags = "read"}}

FrontReaders(q) ==
    {q[i].task : i \in {j \in 1 .. Len(q) :
                            \A k \in 1 .. j : q[k].flags = "read"}}

ReleaseWrite(t) == pc[t] = "uw_112" /\ pc'[t] # "uw_112"

C13_Wakes(readersWoken) ==
    \A t \in Threads :
        ReleaseWrite(t) =>
            IF wait_list = <<>>
            THEN /\ activity' = 0
                 /\ NewlyGranted("write") = {} /\ NewlyGranted("read") = {}
            ELSE IF Head(wait_list).flags = "write"
            THEN /\ NewlyGranted("write") = {Head(wait_list).task}
                 /\ NewlyGranted("read") = {}
                 /\ activity' = -1
                 /\ wait_list' = Tail(wait_list)
            ELSE /\ NewlyGranted("write") = {}
                 /\ NewlyGranted("read") = readersWoken
                 /\ activity' = Cardinality(readersWoken)
                 /\ Tasks(wait_list') = Tasks(wait_list) \ readersWoken

C14_Step ==
    \A t \in Threads :
        ( /\ pc[t] = "dr_85" /\ pc'[t] # "dr_85"
          /\ activity >= 0
          /\ ~ \E w \in Threads : IsWaiting(w, "write") ) =>
            /\ pc'[t] = "dr_86"
            /\ activity' = activity + 1
            /\ held'[t] = "read"
            /\ wait_list' = wait_list
            /\ \A u \in Threads \ {t} : held'[u] = held[u]

C14_SharedRead == [][C14_Step]_vars

(* Two reader threads are inside their read sections at the same time in   *)
(* a run without writers or downgraders, so neither of them ever slept.    *)
C14_Witness ==
    /\ numwr = 0 /\ numdg = 0
    /\ activity >= 2
    /\ \E t, u \in Threads :
        /\ t # u
        /\ HoldsRead(t) /\ HoldsRead(u)
        /\ held[t] = "read" /\ held[u] = "read"

(* C16: idempotent shutdown. The flag do_stuff is 0 or 1; it is set to 1   *)
(* only by the init function before any thread exists and is afterwards    *)
(* only ever cleared. A clear that finds the flag already 0 (the timer     *)
(* after the init function's own clear, or the other way round) changes    *)
(* nothing the threads or the report depend on, and whether the flag was   *)
(* cleared once or twice the run ends with every spawned thread exited     *)
(* and signalled once, and with occupancy 0 reported.                      *)
TimerClears == timer = "pending" /\ timer' = "fired"

InitClears == mainpc = "clear" /\ mainpc' = "del_timer"

C16_Flag ==
    /\ do_stuff \in {0, 1}
    /\ do_stuff = 1 => mainpc # "start"

C16_Step ==
    /\ do_stuff' # do_stuff =>
        \/ /\ do_stuff' = 1
           /\ mainpc = "start"
           /\ \A t \in Threads : pc[t] = "unborn"
        \/ do_stuff' = 0
    /\ (TimerClears \/ InitClears) =>
        /\ do_stuff' = 0
        /\ UNCHANGED <<counters, semvars, pc, comp, cycles, acquired,
                       signalled, failed, report>>

C16_Final ==
    mainpc = "return" =>
        /\ do_stuff = 0
        /\ timer \in {"fired", "deleted"}
        /\ \A t \in Spawned : pc[t] = "exited" /\ signalled[t] = 1
        /\ \A k \in Kinds : \A i \in Slots : comp[k][i] = 0
        /\ activity = 0 /\ wait_list = <<>>
        /\ report.counter = 0
        /\ report.reads = acquired["down_read"]
        /\ report.writes = acquired["down_write"]
        /\ report.downgrades = acquired["downgrade_write"]

C16_IdempotentShutdown == []C16_Flag /\ [][C16_Step]_vars /\ []C16_Final

(* The flag was cleared twice, by the timer and by the init function, in a *)
(* run whose threads took the semaphore.                                   *)
C16_Witness ==
    /\ mainpc = "return"
    /\ timer = "fired"
    /\ Spawned # {}
    /\ reads_taken + writes_taken > 0

(* C17: the counters readers and writers are never both positive, also     *)
(* inside dgw between atomic_dec(&writers), atomic_inc(&readers) and       *)
(* downgrade_write; and writers is always 0 or 1.                          *)
C17_CountersExclusive ==
    /\ ~(readers > 0 /\ writers > 0)
    /\ writers \in {0, 1}
    /\ readers >= 0

(* A downgrader has counted itself as a reader and is about to call        *)
(* downgrade_write: the semaphore is still held for writing.               *)
C17_Witness ==
    \E t \in Threads :
        /\ pc[t] = "dgw_121"
        /\ readers = 1 /\ writers = 0
        /\ activity = -1
        /\ wait_list # <<>>

(* C18: writes_taken counts the write acquisitions of writer threads and   *)
(* of downgrader threads alike. downgrades_taken never exceeds it; at the  *)
(* end of a run the difference is the number of cycles the writer threads  *)
(* completed (their up_write calls); and reads_taken counts down_read      *)
(* only: no step of a downgrader thread changes it.                        *)
C18_Bound ==
    /\ downgrades_taken <= writes_taken
    /\ reads_taken <= acquired["down_read"]

C18_Final ==
    mainpc = "return" =>
        /\ writes_taken - downgrades_taken = acquired["up_write"]
        /\ reads_taken = acquired["down_read"]
        /\ numrd = 0 => reads_taken = 0
        /\ numwr = 0 => writes_taken = downgrades_taken
        /\ numdg = 0 => downgrades_taken = 0

C18_Step ==
    \A t \in Threads :
        (Kind(t) = "dg" /\ pc'[t] # pc[t]) => reads_taken' = reads_taken

C18_WritesCountBothKinds == []C18_Bound /\ []C18_Final /\ [][C18_Step]_vars

(* A finished run in which a reader, a writer and a downgrader each        *)
(* completed a cycle.                                                      *)
C18_Witness ==
    /\ mainpc = "return"
    /\ reads_taken = 1
    /\ writes_taken = 2
    /\ downgrades_taken = 1
    /\ acquired["up_write"] = 1

(* C20: wait-queue consistency. No thread is both a holder and a queued    *)
(* waiter; the queue is empty whenever the occupancy is 0; and whenever    *)
(* the occupancy is 1 or more the request at the head of the queue, if     *)
(* any, is a write request: nothing that could be granted is left queued.  *)
C20_QueueConsistent ==
    /\ \A t \in Threads :
        (held[t] # "none" \/ HoldsRead(t) \/ HoldsWrite(t)) => ~Queued(t)
    /\ activity = 0 => wait_list = <<>>
    /\ (activity >= 1 /\ wait_list # <<>>) => Head(wait_list).flags = "write"

(* Readers hold the semaphore, a writer waits at the head of the queue and *)
(* a reader waits behind it.                                               *)
C20_Witness ==
    /\ activity >= 1
    /\ Len(wait_list) >= 2
    /\ wait_list[1].flags = "write"
    /\ wait_list[2].flags = "read"
    /\ \E t \in Threads : HoldsRead(t) /\ held[t] = "read"

====
